---- MODULE Spec2Model ----
(***************************************************************************)
(* Model of torchrl/utils.py: polyak_average, OUNoise, get_gym_spaces and  *)
(* eval_gym_env.                                                           *)
(*                                                                         *)
(* Tensors and arrays are one-dimensional sequences of integers; the shape *)
(* of an array is its length.  Real numbers are exact fixed-point values:  *)
(* tau is tauN / TauDen, parameter values are integers in units of         *)
(* 1 / Unit, an average is a numerator over a denominator.                 *)
(***************************************************************************)
EXTENDS Integers, Sequences, FiniteSets, TLC

\* ------------------------------------------------------------------ bounds
MaxParams == 2
MaxLen == 2
MaxBlends == 2
TauDen == 2
MaxSamples == 3
MaxTrials == 3
MaxSteps == 2
MaxCalls == 2

RECURSIVE Pow(_, _)
Pow(b, e) == IF e = 0 THEN 1 ELSE b * Pow(b, e - 1)

\* One model unit of parameter value: every blend divides by TauDen exactly.
Unit == Pow(TauDen, MaxBlends)

VARIABLES
    \* polyak_average
    source,        \* source.parameters(): sequence of tensors
    target,        \* target.parameters(): sequence of tensors
    tau,           \* numerator of the tau of the last call
    preSource,     \* source.parameters() when the last call began
    preTarget,     \* target.parameters() when the last call began
    blendStatus,   \* "none" | "ok" | "RuntimeError": how the last call ended
    nBlends        \* number of calls made

blendVars == <<source, target, tau, preSource, preTarget, blendStatus, nBlends>>

VARIABLES
    \* OUNoise
    constructed,   \* an OUNoise object exists
    theta,         \* self.theta
    mean,          \* self.mean (an array, never written through)
    sigma,         \* self.sigma
    delta_t,       \* self.delta_t
    x_init,        \* self.x_init: a reference into heap, or None
    x_prev,        \* self.x_prev: a reference into heap, or None
    heap,          \* the arrays x_init and x_prev refer to, by reference
    initValue,     \* the value the x_init argument had at construction
    noise,         \* the reference returned by the last __call__, or None
    z,             \* the np.random.normal draw of the last __call__
    lastOp,        \* "none" | "init" | "call" | "ValueError" | "reset"
    nSamples       \* number of __call__ calls made

noiseVars == <<constructed, theta, mean, sigma, delta_t, x_init, x_prev, heap,
               initValue, noise, z, lastOp, nSamples>>

VARIABLES
    \* get_gym_spaces and eval_gym_env
    pc,            \* position in eval_gym_env: "idle" | "loop" | "collect" |
                   \* "average" | "done" | "raised"
    nEnvs,         \* number of environments gym.make has constructed so far
    live,          \* the constructed environments that are not closed
    env,           \* the environment of the current eval_gym_env call, or None
    envsMade,      \* environments constructed by the current eval_gym_env call
    num_eval,      \* args.num_eval
    loop_i,        \* the loop's i: number of completed iterations
    rewards,       \* the list rewards
    histories,     \* every reward_history that collect returned in this call
    calls,         \* the calls made on runner in this call, in order
    result,        \* the value eval_gym_env returned
    probeStatus,   \* "none" | "ok" | "Error": how the last get_gym_spaces ended
    probeResult,   \* what the last get_gym_spaces returned
    probeId,       \* the env_id of the last get_gym_spaces call
    nProbes,       \* number of get_gym_spaces calls made
    nEvals         \* number of eval_gym_env calls made

envVars == <<pc, nEnvs, live, env, envsMade, num_eval, loop_i, rewards, histories,
             calls, result, probeStatus, probeResult, probeId, nProbes, nEvals>>

vars == <<blendVars, noiseVars, envVars>>

\* ------------------------------------------------------- array arithmetic
\* Two 1-D shapes broadcast when they are equal or one of them is 1.
Broadcastable(m, n) == m = n \/ m = 1 \/ n = 1

Max(m, n) == IF m >= n THEN m ELSE n

\* Element i of x seen at a broadcast shape.
At(x, i) == IF Len(x) = 1 THEN x[1] ELSE x[i]

\* ------------------------------------------------------- polyak_average
\* tau * src_param.data + (1.0 - tau) * target_param.data, at the broadcast
\* shape of the two operands.
BlendSwapped(tauN, src, tgt) ==
    [i \in 1..Max(Len(src), Len(tgt)) |->
        (tauN * At(tgt, i) + (TauDen - tauN) * At(src, i)) \div TauDen]

BlendValue(tauN, src, tgt) ==
    [i \in 1..Max(Len(src), Len(tgt)) |->
        (tauN * At(src, i) + (TauDen - tauN) * At(tgt, i)) \div TauDen]

\* The body of the loop for one (src_param, target_param) pair: the
\* expression raises when the operands do not broadcast, copy_ raises when
\* the value does not broadcast to the target's shape; otherwise copy_
\* overwrites the target's elements in place (the target keeps its shape).
BlendPair(tauN, src, tgt) ==
    IF ~Broadcastable(Len(src), Len(tgt))
    THEN [ok |-> FALSE, val |-> tgt]
    ELSE LET v == BlendValue(tauN, src, tgt)
         IN  IF Len(v) # Len(tgt) /\ Len(v) # 1
             THEN [ok |-> FALSE, val |-> tgt]
             ELSE [ok |-> TRUE, val |-> [i \in 1..Len(tgt) |-> At(v, i)]]

Min(m, n) == IF m <= n THEN m ELSE n

\* for src_param, target_param in zip(source.parameters(), target.parameters()):
\* pairs k, k+1, ... up to the shorter of the two lists, stopping at the
\* first pair that raises.
RECURSIVE BlendLoop(_, _, _, _)
BlendLoop(tauN, src, tgt, k) ==
    IF k > Min(Len(src), Len(tgt))
    THEN [status |-> "ok", params |-> tgt]
    ELSE LET r == BlendPair(tauN, src[k], tgt[k])
         IN  IF ~r.ok
             THEN [status |-> "RuntimeError", params |-> tgt]
             ELSE BlendLoop(tauN, src, [tgt EXCEPT ![k] = r.val], k + 1)

\* Inputs: tensors filled with one value, of every length up to MaxLen.
Fill(n, v) == [i \in 1..n |-> v]

Tensors == {Fill(n, v * Unit) : n \in 1..MaxLen, v \in {0, 2}}

ParamLists == UNION {[1..n -> Tensors] : n \in 1..MaxParams}

None == 0

NoResult == [shape |-> <<>>, num |-> <<>>, den |-> 0]

EnvIdle ==
    /\ pc = "idle"
    /\ nEnvs = 0
    /\ live = {}
    /\ env = None
    /\ envsMade = 0
    /\ num_eval = 0
    /\ loop_i = 0
    /\ rewards = <<>>
    /\ histories = <<>>
    /\ calls = <<>>
    /\ result = NoResult
    /\ probeStatus = "none"
    /\ probeResult = <<>>
    /\ probeId = ""
    /\ nProbes = 0
    /\ nEvals = 0

NoiseIdle ==
    /\ constructed = FALSE
    /\ theta = 0
    /\ mean = <<>>
    /\ sigma = 0
    /\ delta_t = 0
    /\ x_init = None
    /\ x_prev = None
    /\ heap = <<>>
    /\ initValue = <<>>
    /\ noise = None
    /\ z = <<>>
    /\ lastOp = "none"
    /\ nSamples = 0

BlendInit ==
    /\ NoiseIdle
    /\ EnvIdle
    /\ source \in ParamLists
    /\ target \in ParamLists
    /\ tau = 0
    /\ preSource = source
    /\ preTarget = target
    /\ blendStatus = "none"
    /\ nBlends = 0

polyak_average(tauN) ==
    /\ nBlends < MaxBlends
    /\ LET r == BlendLoop(tauN, source, target, 1)
       IN  /\ target' = r.params
           /\ blendStatus' = r.status
    /\ tau' = tauN
    /\ preSource' = source
    /\ preTarget' = target
    /\ nBlends' = nBlends + 1
    /\ UNCHANGED <<source, noiseVars, envVars>>

BlendNext == \E tauN \in 0..TauDen : polyak_average(tauN)

SpecBlend == BlendInit /\ [][BlendNext]_vars

\* ----------------------------------------------------------------- OUNoise
Add(a, b) == [i \in 1..Max(Len(a), Len(b)) |-> At(a, i) + At(b, i)]

Sub(a, b) == [i \in 1..Max(Len(a), Len(b)) |-> At(a, i) - At(b, i)]

Scale(c, a) == [i \in 1..Len(a) |-> c * a[i]]

\* np.sqrt on the perfect squares delta_t is drawn from.
Sqrt(n) == CHOOSE r \in 0..n : r * r = n

\* np.zeros_like(self.mean)
ZerosLike(a) == [i \in 1..Len(a) |-> 0]

OUValueFromMean(prev, zz) ==
    Add(Add(mean, Scale(delta_t, Scale(theta, Sub(mean, prev)))),
        Scale(sigma * Sqrt(delta_t), zz))

\* self.x_prev + self.theta * (self.mean - self.x_prev) * self.delta_t
\*   + self.sigma * np.sqrt(self.delta_t) * np.random.normal(size=self.mean.shape)
OUValue(prev, zz) ==
    Add(Add(prev, Scale(delta_t, Scale(theta, Sub(mean, prev)))),
        Scale(sigma * Sqrt(delta_t), zz))

\* The smallest reference not in use.
FreshRef(h) ==
    CHOOSE r \in 1..(Cardinality(DOMAIN h) + 1) :
        /\ r \notin DOMAIN h
        /\ \A q \in 1..(r - 1) : q \in DOMAIN h

\* Arrays nothing refers to any more are collected.
Collect(h, keep) == [r \in (DOMAIN h \cap keep) |-> h[r]]

StoreNoiseInPlace(h, prevRef, val) ==
    [heap |-> [r \in DOMAIN h |-> IF r = prevRef THEN val ELSE h[r]],
     ref |-> prevRef]

\* noise = <expression>; self.x_prev = noise: the expression builds a new
\* array, and x_prev is rebound to it.
StoreNoise(h, prevRef, val) ==
    LET r == FreshRef(h)
    IN  [heap |-> [q \in DOMAIN h \cup {r} |-> IF q = r THEN val ELSE h[q]],
         ref |-> r]

\* self.x_prev = self.x_init if self.x_init is not None else np.zeros_like(self.mean)
ResetValue(h, xi, mn) ==
    IF xi # None
    THEN [heap |-> h, ref |-> xi]
    ELSE LET r == FreshRef(h)
         IN  [heap |-> [q \in DOMAIN h \cup {r} |->
                           IF q = r THEN ZerosLike(mn) ELSE h[q]],
              ref |-> r]

\* Inputs.
Shapes == {1, 2, 3}

Means == {Fill(n, v) : n \in Shapes, v \in {0, 1}}

InitVectors == {[i \in 1..n |-> v + i - 1] : n \in Shapes, v \in {0, 1}}

\* The draws of np.random.normal(size=n).
Normal(n) == [1..n -> {-1, 1}]

\* OUNoise.__init__(mean, sigma, theta, delta_t, x_init): arg is the x_init
\* argument, given is whether it is an array (else None).
OUNoise_init(mn, sg, th, dt, given, arg) ==
    /\ ~constructed
    /\ constructed' = TRUE
    /\ theta' = th
    /\ mean' = mn
    /\ sigma' = sg
    /\ delta_t' = dt
    /\ LET xi == IF given THEN 1 ELSE None
           h0 == IF given THEN [r \in {1} |-> arg] ELSE <<>>
           rs == ResetValue(h0, xi, mn)
       IN  /\ x_init' = xi
           /\ heap' = rs.heap
           /\ x_prev' = rs.ref
    /\ initValue' = IF given THEN arg ELSE <<>>
    /\ noise' = None
    /\ z' = <<>>
    /\ lastOp' = "init"
    /\ nSamples' = 0
    /\ UNCHANGED <<blendVars, envVars>>

\* OUNoise.__call__()
OUNoise_call ==
    /\ constructed
    /\ nSamples < MaxSamples
    /\ nSamples' = nSamples + 1
    /\ IF ~Broadcastable(Len(mean), Len(heap[x_prev]))
       THEN \* the expression raises: nothing is assigned
            /\ lastOp' = "ValueError"
            /\ noise' = None
            /\ heap' = Collect(heap, {x_init, x_prev})
            /\ UNCHANGED <<x_prev, z>>
       ELSE \E zz \in Normal(Len(mean)) :
                LET st == StoreNoise(heap, x_prev, OUValue(heap[x_prev], zz))
                IN  /\ heap' = Collect(st.heap, {x_init, st.ref})
                    /\ x_prev' = st.ref
                    /\ noise' = st.ref
                    /\ z' = zz
                    /\ lastOp' = "call"
    /\ UNCHANGED <<constructed, theta, mean, sigma, delta_t, x_init, initValue>>
    /\ UNCHANGED <<blendVars, envVars>>

\* OUNoise.reset()
OUNoise_reset ==
    /\ constructed
    /\ LET rs == ResetValue(Collect(heap, {x_init}), x_init, mean)
       IN  /\ heap' = rs.heap
           /\ x_prev' = rs.ref
    /\ noise' = None
    /\ lastOp' = "reset"
    /\ UNCHANGED <<constructed, theta, mean, sigma, delta_t, x_init, initValue,
                   z, nSamples>>
    /\ UNCHANGED <<blendVars, envVars>>

BlendIdle ==
    /\ source = <<>>
    /\ target = <<>>
    /\ tau = 0
    /\ preSource = <<>>
    /\ preTarget = <<>>
    /\ blendStatus = "none"
    /\ nBlends = 0

NoiseInit == NoiseIdle /\ BlendIdle /\ EnvIdle

NoiseNext ==
    \/ \E mn \in Means, sg \in {1, 2}, th \in {0, 1}, dt \in {1, 4},
          given \in BOOLEAN, arg \in InitVectors :
           /\ (~given => arg = <<0>>)
           /\ OUNoise_init(mn, sg, th, dt, given, arg)
    \/ OUNoise_call
    \/ OUNoise_reset

SpecNoise == NoiseInit /\ [][NoiseNext]_vars

\* ------------------------------------------ get_gym_spaces, eval_gym_env
\* The environments gym has registered, with their (observation_space,
\* action_space); any other id makes gym.make raise.
Registered == {"CartPole-v0", "Pendulum-v0"}

Spaces(id) ==
    IF id = "CartPole-v0" THEN <<"Box4", "Discrete2">> ELSE <<"Box3", "Box1">>

EnvIds == Registered \cup {"NoSuchEnv-v0"}

\* EpisodeRunner.stop(): tears down the simulator resources of its
\* environment.
runner_stop(l, e) == l \ {e}

KeepOpen(l, e) == l

\* env.close()
Close(l, e) == l \ {e}

\* get_gym_spaces(env_id)
get_gym_spaces(id) ==
    /\ pc \in {"idle", "done", "raised"}
    /\ nProbes + nEvals < MaxCalls
    /\ nProbes' = nProbes + 1
    /\ probeId' = id
    /\ IF id \notin Registered
       THEN \* gym.make raises: no environment is constructed
            /\ probeStatus' = "Error"
            /\ probeResult' = <<>>
            /\ UNCHANGED <<nEnvs, live>>
       ELSE LET e == nEnvs + 1
            IN  /\ nEnvs' = e
                /\ probeResult' = Spaces(id)
                /\ live' = Close(live \cup {e}, e)
                /\ probeStatus' = "ok"
    \* the frame of an eval_gym_env call that has ended is gone
    /\ pc' = "idle"
    /\ env' = None
    /\ envsMade' = 0
    /\ num_eval' = 0
    /\ loop_i' = 0
    /\ rewards' = <<>>
    /\ histories' = <<>>
    /\ calls' = <<>>
    /\ result' = NoResult
    /\ UNCHANGED nEvals
    /\ UNCHANGED <<blendVars, noiseVars>>

\* A step reward is an array: shape <<>> for a scalar, <<m>> for a vector
\* of m objectives; data holds its elements.
Scalar(v) == [shape |-> <<>>, data |-> <<v>>]

Vector(d) == [shape |-> <<Len(d)>>, data |-> d]

\* The reward of a step, made of the number v: v itself, or the vector
\* <<v, v + 1, ...>> of dim objectives.
StepReward(dim, v) ==
    IF dim = 0 THEN Scalar(v) ELSE Vector([j \in 1..dim |-> v + j - 1])

\* The reward_history sequences collect can return: at least one step, at
\* most max_episode_steps; the same reward at every step, or a growing one.
Histories(dim) ==
    {[t \in 1..n |-> StepReward(dim, IF growing THEN t ELSE 1)] :
        n \in 1..MaxSteps, growing \in BOOLEAN}

RewardDims == {0, 2}

RECURSIVE SumFrom(_, _, _)
SumFrom(h, j, t) ==
    IF t > Len(h) THEN 0 ELSE h[t].data[j] + SumFrom(h, j, t + 1)

np_last(h) ==
    [shape |-> h[1].shape, data |-> h[Len(h)].data]

\* np.sum(reward_history, axis=0): the element-wise sum over the steps.
np_sum(h) ==
    [shape |-> h[1].shape,
     data |-> [j \in 1..Len(h[1].data) |-> SumFrom(h, j, 1)]]

RECURSIVE Total(_, _)
Total(d, j) == IF j > Len(d) THEN 0 ELSE d[j] + Total(d, j + 1)

RECURSIVE TotalAll(_, _)
TotalAll(rs, t) ==
    IF t > Len(rs) THEN 0 ELSE Total(rs[t].data, 1) + TotalAll(rs, t + 1)

RECURSIVE ColumnTotal(_, _, _)
ColumnTotal(rs, j, t) ==
    IF t > Len(rs) THEN 0 ELSE rs[t].data[j] + ColumnTotal(rs, j, t + 1)

np_average_axis0(rs) ==
    IF Len(rs) = 0
    THEN [shape |-> <<>>, num |-> <<0>>, den |-> 0]
    ELSE [shape |-> rs[1].shape,
          num |-> [j \in 1..Len(rs[1].data) |-> ColumnTotal(rs, j, 1)],
          den |-> Len(rs)]

\* np.average(rewards) with no axis: the mean of all elements of the
\* stacked list, a scalar num / den (den = 0 stands for nan, the average
\* of no elements).
np_average(rs) ==
    IF Len(rs) = 0
    THEN [shape |-> <<>>, num |-> <<0>>, den |-> 0]
    ELSE [shape |-> <<>>, num |-> <<TotalAll(rs, 1)>>,
          den |-> Len(rs) * Len(rs[1].data)]

RangeInclusive(k, n) == k <= n

\* for i in range(args.num_eval): another iteration follows k completed ones.
InRange(k, n) == k < n

\* env = gym.make(args.env); runner = EpisodeRunner(env, ...); rewards = []
eval_gym_env_make(id, n) ==
    /\ pc \in {"idle", "done", "raised"}
    /\ nProbes + nEvals < MaxCalls
    /\ nEvals' = nEvals + 1
    /\ num_eval' = n
    /\ loop_i' = 0
    /\ rewards' = <<>>
    /\ histories' = <<>>
    /\ calls' = <<>>
    /\ result' = NoResult
    /\ IF id \notin Registered
       THEN /\ pc' = "raised"
            /\ env' = None
            /\ envsMade' = 0
            /\ UNCHANGED <<nEnvs, live>>
       ELSE /\ pc' = "loop"
            /\ nEnvs' = nEnvs + 1
            /\ live' = live \cup {nEnvs + 1}
            /\ env' = nEnvs + 1
            /\ envsMade' = 1
    /\ UNCHANGED <<probeStatus, probeResult, probeId, nProbes>>
    /\ UNCHANGED <<blendVars, noiseVars>>

\* runner.reset(): returns, or raises and the exception leaves eval_gym_env
eval_gym_env_reset ==
    /\ pc = "loop"
    /\ InRange(loop_i, num_eval)
    /\ calls' = Append(calls, "reset")
    /\ \/ pc' = "collect"
       \/ pc' = "raised"
    /\ UNCHANGED <<nEnvs, live, env, envsMade, num_eval, loop_i, rewards, histories,
                   result, probeStatus, probeResult, probeId,
                   nProbes, nEvals>>
    /\ UNCHANGED <<blendVars, noiseVars>>

\* ... = runner.collect(agent, store=True);
\* rewards.append(np.sum(reward_history, axis=0))
eval_gym_env_collect ==
    /\ pc = "collect"
    /\ calls' = Append(calls, "collect")
    /\ \/ \E h \in UNION {Histories(dim) : dim \in RewardDims} :
              /\ \A t \in 1..Len(histories) : histories[t][1].shape = h[1].shape
              /\ histories' = Append(histories, h)
              /\ rewards' = Append(rewards, np_sum(h))
              /\ loop_i' = loop_i + 1
              /\ pc' = "loop"
       \/ /\ pc' = "raised"
          /\ UNCHANGED <<histories, rewards, loop_i>>
    /\ UNCHANGED <<nEnvs, live, env, envsMade, num_eval, result, probeStatus,
                   probeResult, probeId, nProbes, nEvals>>
    /\ UNCHANGED <<blendVars, noiseVars>>

\* runner.stop(): tears down the simulator resources of its environment
eval_gym_env_stop ==
    /\ pc = "loop"
    /\ ~InRange(loop_i, num_eval)
    /\ calls' = Append(calls, "stop")
    /\ live' = runner_stop(live, env)
    /\ pc' = "average"
    /\ UNCHANGED <<nEnvs, env, envsMade, num_eval, loop_i, rewards, histories,
                   result, probeStatus, probeResult, probeId,
                   nProbes, nEvals>>
    /\ UNCHANGED <<blendVars, noiseVars>>

\* return np.average(rewards)
eval_gym_env_return ==
    /\ pc = "average"
    /\ result' = np_average(rewards)
    /\ pc' = "done"
    /\ UNCHANGED <<nEnvs, live, env, envsMade, num_eval, loop_i, rewards, histories,
                   calls, probeStatus, probeResult, probeId,
                   nProbes, nEvals>>
    /\ UNCHANGED <<blendVars, noiseVars>>

EnvInit == EnvIdle /\ NoiseIdle /\ BlendIdle

EnvNext ==
    \/ \E id \in EnvIds : get_gym_spaces(id)
    \/ \E id \in EnvIds, n \in 0..MaxTrials : eval_gym_env_make(id, n)
    \/ eval_gym_env_reset
    \/ eval_gym_env_collect
    \/ eval_gym_env_stop
    \/ eval_gym_env_return

SpecEnv == EnvInit /\ [][EnvNext]_vars

\* ------------------------------------------------------------ properties
\* The structures of two parameter lists match: same length, same shape of
\* every corresponding element.
SameStructure(a, b) ==
    /\ Len(a) = Len(b)
    /\ \A k \in 1..Len(a) : Len(a[k]) = Len(b[k])

\* C1: a call of polyak_average on parameter lists that differ in length or
\* in the shape of some corresponding element fails, and leaves every tensor
\* of target with the value it had before the call.
C1_MismatchFailsAtomically ==
    (blendStatus # "none" /\ ~SameStructure(preSource, preTarget))
        => (blendStatus = "RuntimeError" /\ target = preTarget)

\* C5: for structurally matching source and target, every target element
\* becomes tau * source + (1 - tau) * target of the values before the call;
\* tau = 0 leaves target unchanged, tau = 1 makes it equal to source,
\* tau = 1/2 on source [2], target [0] gives [1]; source is not modified.
C5_BlendFormula ==
    (blendStatus # "none" /\ SameStructure(preSource, preTarget))
        => /\ blendStatus = "ok"
           /\ SameStructure(target, preTarget)
           /\ \A k \in 1..Len(target) : \A i \in 1..Len(target[k]) :
                  TauDen * target[k][i] =
                      tau * preSource[k][i] + (TauDen - tau) * preTarget[k][i]
           /\ (tau = 0 => target = preTarget)
           /\ (tau = TauDen => target = preSource)
           /\ ((2 * tau = TauDen /\ preSource = <<<<2 * Unit>>>>
                                 /\ preTarget = <<<<0>>>>)
                  => target = <<<<Unit>>>>)
           /\ source = preSource

C5_Witness ==
    /\ blendStatus = "ok"
    /\ nBlends = 2
    /\ SameStructure(preSource, preTarget)
    /\ Len(target) = 2
    /\ 2 * tau = TauDen
    /\ preTarget # preSource
    /\ target # preTarget
    /\ target # source

\* C6: whenever the last operation on an OUNoise is reset(), x_prev is the
\* x_init given at construction, holding the values it had then, or, if
\* none was given, a zero vector of mean's shape.
C6_ResetRestores ==
    (constructed /\ lastOp = "reset")
        => IF x_init # None
           THEN x_prev = x_init /\ heap[x_prev] = initValue
           ELSE heap[x_prev] = [i \in 1..Len(mean) |-> 0]

C6_Witness ==
    /\ constructed
    /\ lastOp = "reset"
    /\ nSamples >= 2
    /\ x_init # None
    /\ x_prev = x_init
    /\ Len(initValue) = 2
    /\ theta = 1

C9_ShapeInvariant ==
    constructed => Len(heap[x_prev]) = Len(mean)

\* The sum of the step rewards' component j over a reward_history.
RECURSIVE TrialReturn(_, _)
TrialReturn(h, j) ==
    IF Len(h) = 0 THEN 0
    ELSE Head(h).data[j] + TrialReturn(Tail(h), j)

\* The sum over the first t trials of the call of their component-j returns.
RECURSIVE SumOfReturns(_, _)
SumOfReturns(t, j) ==
    IF t = 0 THEN 0
    ELSE TrialReturn(histories[t], j) + SumOfReturns(t - 1, j)

RewardShape == histories[1][1].shape

\* C2: when eval_gym_env has been left, by return or by an exception, the
\* environment it constructed is no longer live.
C2_ReleasedOnEveryExit ==
    pc \in {"done", "raised"} => env \notin live

\* C3: with scalar step rewards and num_eval >= 1, eval_gym_env returns the
\* sum over the trials of each trial's summed rewards, divided by num_eval:
\* the one trial's sum when num_eval = 1, and the common sum when all trials
\* have the same reward sequence.
C3_MeanOfTrialSums ==
    (pc = "done" /\ num_eval >= 1 /\ RewardShape = <<>>)
        => /\ Len(histories) = num_eval
           /\ result.shape = <<>>
           /\ result.den > 0
           /\ result.num[1] * num_eval = result.den * SumOfReturns(num_eval, 1)
           /\ (num_eval = 1
                 => result.num[1] = result.den * TrialReturn(histories[1], 1))
           /\ ((\A t \in 1..num_eval : histories[t] = histories[1])
                 => result.num[1] = result.den * TrialReturn(histories[1], 1))

C3_Witness ==
    /\ pc = "done"
    /\ num_eval = 3
    /\ RewardShape = <<>>
    /\ \A t \in 1..3 : histories[t] = <<Scalar(1), Scalar(2)>>
    /\ result.num[1] = 3 * result.den

RECURSIVE SumOverObjectives(_)
SumOverObjectives(m) ==
    IF m = 0 THEN 0 ELSE SumOfReturns(num_eval, m) + SumOverObjectives(m - 1)

C8_ProbeLeavesNoEnv ==
    [][(nProbes' = nProbes + 1)
          => /\ live' = live
             /\ (probeId' \in Registered
                   => /\ probeStatus' = "ok"
                      /\ nEnvs' = nEnvs + 1
                      /\ nEnvs' \notin live'
                      /\ probeResult' = Spaces(probeId'))
             /\ (probeId' \notin Registered
                   => /\ probeStatus' = "Error"
                      /\ nEnvs' = nEnvs)]_vars

C8_Witness ==
    /\ nProbes = 2
    /\ probeStatus = "Error"
    /\ probeId = "NoSuchEnv-v0"
    /\ nEnvs = 1
    /\ live = {}

\* The calls of a run of n trials: n times reset, collect, then one stop.
ExpectedCalls(n) ==
    [k \in 1..(2 * n + 1) |->
        IF k = 2 * n + 1 THEN "stop"
        ELSE IF k % 2 = 1 THEN "reset" ELSE "collect"]

\* C10: in a run of eval_gym_env the calls on runner are reset, collect,
\* reset, collect, ...; when it returns there were exactly num_eval pairs
\* followed by exactly one stop, made before the result exists; and the
\* run constructed exactly one environment.
C10_CallOrder ==
    /\ pc \in {"loop", "collect", "average", "done"}
          => /\ Len(calls) <= 2 * num_eval + 1
             /\ \A k \in 1..Len(calls) : calls[k] = ExpectedCalls(num_eval)[k]
             /\ envsMade = 1
    /\ pc \in {"loop", "collect", "average"} => env = nEnvs
    /\ pc \in {"loop", "collect"} => result = NoResult
    /\ pc \in {"average", "done"} => calls = ExpectedCalls(num_eval)
    /\ pc = "average" => result = NoResult
    /\ pc = "done" => Len(rewards) = num_eval

C10_Witness ==
    /\ pc = "done"
    /\ num_eval = 3
    /\ calls = <<"reset", "collect", "reset", "collect", "reset", "collect",
                 "stop">>
    /\ env \notin live

====
